---- MODULE Spec2Model ----
(***************************************************************************)
(* Model of data_generator.py: a straight-line script that draws the       *)
(* columns of a synthetic real-estate table from numpy's global random     *)
(* stream, derives price / description / year_built, masks five columns,   *)
(* assembles a DataFrame, appends duplicate rows and shuffles.             *)
(*                                                                         *)
(* Continuous quantities are fixed-point integers in hundredths (SCALE);   *)
(* coordinates are in ten-thousandths.  NaN is an integer outside every    *)
(* column's range; a description cell is <<text>>, or <<>> when missing.   *)
(* Random draws are nondeterministic choices from small sets of arrays.    *)
(***************************************************************************)
EXTENDS Integers, Sequences, FiniteSets, TLC

VARIABLES pc, globals, draws

vars == <<pc, globals, draws>>

(* ------------------------------ bounds -------------------------------- *)
\* Row count (300 in the script), outlier count (15) and duplicate count (6),
\* scaled down together so that the table stays enumerable.
n_rows == 3
NumOutliers == 2
NumDuplicates == 2

(* --------------------------- representation --------------------------- *)
SCALE == 100
NaN == -999999999
NoText == <<>>
Undefined == <<>>

Rows == 1..n_rows

IsNull(v) == v = NaN

SeqRange(s) == {s[k] : k \in 1..Len(s)}

\* vals repeated cyclically over n places, starting k places in
CycN(vals, k, n) == [i \in 1..n |-> vals[((i - 1 + k) % Len(vals)) + 1]]
Cyc(vals, k) == CycN(vals, k, n_rows)
\* the arrays a column draw may return: every cyclic shift of vals
ColumnDraws(vals) == {Cyc(vals, k) : k \in 0..(Len(vals) - 1)}
\* a single array whose rows run through vals
OneArray(vals) == {Cyc(vals, 0)}

(* ------------------------------ numpy --------------------------------- *)
Clip(x, lo, hi) == IF x < lo THEN lo ELSE IF x > hi THEN hi ELSE x

\* round-half-to-even of the fixed-point x to a multiple of unit
RoundHalfEven(x, unit) ==
  LET q == x \div unit
      r == x % unit
  IN IF 2 * r < unit THEN q * unit
     ELSE IF 2 * r > unit THEN (q + 1) * unit
     ELSE IF q % 2 = 0 THEN q * unit ELSE (q + 1) * unit

Unit(decimals) == IF decimals = 0 THEN SCALE ELSE IF decimals = 1 THEN SCALE \div 10 ELSE 1

\* ndarray.round(decimals); NaN stays NaN
Round(x, decimals) == IF IsNull(x) THEN NaN ELSE RoundHalfEven(x, Unit(decimals))

AsIntRounded(x) == RoundHalfEven(x, SCALE) \div SCALE
\* ndarray.astype(int): truncation toward zero, result in whole units
AsInt(x) == IF x >= 0 THEN x \div SCALE ELSE -((-x) \div SCALE)

\* np.where(cond, a, b), elementwise over the rows
Where(cond, a, b) == [i \in Rows |-> IF cond[i] THEN a[i] ELSE b[i]]

NaNs == [i \in Rows |-> NaN]

\* fixed-point product a * f / SCALE for a >= 0, NaN-propagating
Mul(a, f) == IF IsNull(a) THEN NaN ELSE (a \div SCALE) * f + ((a % SCALE) * f) \div SCALE

PyMin(a, b) == IF IsNull(a) THEN NaN ELSE IF b < a THEN b ELSE a
\* Python max(a, b): returns a unless b > a; a NaN first argument is returned
PyMax(a, b) == IF IsNull(a) THEN NaN ELSE IF b > a THEN b ELSE a

(* --------------------------- script constants ------------------------- *)
CurrentYear == 2024
MinPrice == 100000
RandintHigh == 1460

cities == <<"New York", "Los Angeles", "Chicago", "Houston", "Phoenix",
            "Philadelphia", "San Antonio", "San Diego", "Dallas", "Austin">>

city_coords(c) ==
  CASE c = "New York" -> <<407128, -740060>>
    [] c = "Los Angeles" -> <<340522, -1182437>>
    [] c = "Chicago" -> <<418781, -876298>>
    [] c = "Houston" -> <<297604, -953698>>
    [] c = "Phoenix" -> <<334484, -1120740>>
    [] c = "Philadelphia" -> <<399526, -751652>>
    [] c = "San Antonio" -> <<294241, -984936>>
    [] c = "San Diego" -> <<327157, -1171611>>
    [] c = "Dallas" -> <<327767, -967970>>
    [] c = "Austin" -> <<302672, -977431>>

property_types == <<"Single Family", "Condo", "Townhouse", "Multi Family", "Villa">>

\* city_premiums.get(c, 0), in whole dollars
city_premiums(c) ==
  CASE c = "New York" -> 200000
    [] c = "Los Angeles" -> 180000
    [] c = "San Francisco" -> 250000
    [] c = "Chicago" -> 50000
    [] c = "Houston" -> 30000
    [] c = "Phoenix" -> 40000
    [] c = "Philadelphia" -> 60000
    [] c = "San Antonio" -> 20000
    [] c = "San Diego" -> 150000
    [] c = "Dallas" -> 45000
    [] c = "Austin" -> 80000
    [] OTHER -> 0

conditions == <<"Excellent", "Good", "Fair", "Poor">>
parkings == <<"Garage", "Carport", "Street", "None">>

\* str.lower() on the category names
Lower(s) ==
  CASE s = "Excellent" -> "excellent"
    [] s = "Good" -> "good"
    [] s = "Fair" -> "fair"
    [] s = "Poor" -> "poor"
    [] s = "Single Family" -> "single family"
    [] s = "Condo" -> "condo"
    [] s = "Townhouse" -> "townhouse"
    [] s = "Multi Family" -> "multi family"
    [] s = "Villa" -> "villa"

(* ---------------------- values the draws range over ------------------- *)
ListingDayValues == <<0, 730, 1459>>
DaysToSaleValues == <<5, 90, 179>>
JitterValues == <<-1000, 0, 1500>>
BedroomValues == <<1, 2, 3, 4, 5, 6>>
BathroomValues == <<100, 150, 200, 250, 300, 350, 400>>
AreaGammaValues == <<1, 600000, 103456>>
LotGammaValues == <<1, 45, 400>>
AgeGammaValues == <<50, 1270, 13000>>
NoiseValues == <<-70000000, 1234567>>
FactorValues == <<200, 475>>
TemplateValues == <<1, 2, 3, 4, 5>>
KitchenFlipValues == <<50, 75, 90>>
SchoolFlipValues == <<85, 50, 80>>
StoryValues == <<1, 2, 3>>
GarageValues == <<0, 1, 2, 3>>
HoaGammaValues == <<15000, 1, 80000>>
DaysOnMarketValues == <<-1550, 4500, 12049>>
PoissonValues == <<80, 100, 131>>
SchoolRatingValues == <<1, 2, 3, 4, 5, 6, 7, 8, 9, 10>>
BetaValues == <<7142, 9985, 5>>
HoaUniformValues == <<60, 61>>
YearUniformValues == <<95, 96>>
DescUniformValues == <<97, 98>>
WalkUniformValues == <<91, 90>>

(* ------------------------------ control ------------------------------- *)
\* the statements with the outlier block moved behind the categorical draws
StatementsOutliersLate ==
  << "property_ids", "listing_dates", "days_to_sale", "sale_dates", "city",
     "latlon", "property_type", "bedrooms", "bathrooms", "area", "lot_size",
     "age", "base_price", "price",
     "condition", "parking", "has_pool", "has_fireplace",
     "outlier_indices", "outlier_scale", "descriptions",
     "year_built", "stories", "garage_spaces", "hoa_fee", "days_on_market",
     "views", "school_rating", "walk_score", "lot_size_mask", "hoa_fee_mask",
     "year_built_mask", "description_mask", "walk_score_mask", "df",
     "duplicate_indices", "concat", "shuffle" >>

\* the statements with the lot_size mask moved ahead of the price computation
StatementsMaskFirst ==
  << "property_ids", "listing_dates", "days_to_sale", "sale_dates", "city",
     "latlon", "property_type", "bedrooms", "bathrooms", "area", "lot_size",
     "age", "lot_size_mask", "base_price", "price", "outlier_indices",
     "outlier_scale", "condition", "parking", "has_pool", "has_fireplace",
     "descriptions", "year_built", "stories", "garage_spaces", "hoa_fee",
     "days_on_market", "views", "school_rating", "walk_score", "hoa_fee_mask",
     "year_built_mask", "description_mask", "walk_score_mask", "df",
     "duplicate_indices", "concat", "shuffle" >>

\* the script's statements, in program order
Statements ==
  << "property_ids", "listing_dates", "days_to_sale", "sale_dates", "city",
     "latlon", "property_type", "bedrooms", "bathrooms", "area", "lot_size",
     "age", "base_price", "price", "outlier_indices", "outlier_scale",
     "condition", "parking", "has_pool", "has_fireplace", "descriptions",
     "year_built", "stories", "garage_spaces", "hoa_fee", "days_on_market",
     "views", "school_rating", "walk_score", "lot_size_mask", "hoa_fee_mask",
     "year_built_mask", "description_mask", "walk_score_mask", "df",
     "duplicate_indices", "concat", "shuffle" >>

At(s) == pc <= Len(Statements) /\ Statements[pc] = s
Done == pc = Len(Statements) + 1
\* statement s has been executed
Past(s) == \E k \in 1..(pc - 1) : k <= Len(Statements) /\ Statements[k] = s

GlobalStream == "np.random"
\* a draw at call site `site` on random stream `stream`
Draw(stream, site) == draws' = Append(draws, <<stream, site>>)
NoDraw == draws' = draws
Step == pc' = pc + 1

Init ==
  /\ pc = 1
  /\ draws = <<>>
  /\ globals = [ property_ids |-> Undefined, listing_dates |-> Undefined,
                 days_to_sale |-> Undefined, sale_dates |-> Undefined,
                 city |-> Undefined, latitudes |-> Undefined,
                 longitudes |-> Undefined, property_type |-> Undefined,
                 bedrooms |-> Undefined, bathrooms |-> Undefined,
                 area |-> Undefined, lot_size |-> Undefined, age |-> Undefined,
                 base_price |-> Undefined, price |-> Undefined,
                 outlier_indices |-> Undefined, condition |-> Undefined,
                 parking |-> Undefined, has_pool |-> Undefined,
                 has_fireplace |-> Undefined, descriptions |-> Undefined,
                 year_built |-> Undefined, stories |-> Undefined,
                 garage_spaces |-> Undefined, hoa_fee |-> Undefined,
                 days_on_market |-> Undefined, views |-> Undefined,
                 school_rating |-> Undefined, walk_score |-> Undefined,
                 df |-> [index |-> <<>>, rows |-> <<>>],
                 duplicate_indices |-> Undefined, sampled |-> Undefined ]

(* ---------------------- 1-4. ids, dates, geography -------------------- *)
\* f"{i:04d}"
Pad4(i) ==
  IF i < 10 THEN "000" \o ToString(i)
  ELSE IF i < 100 THEN "00" \o ToString(i)
  ELSE IF i < 1000 THEN "0" \o ToString(i) ELSE ToString(i)

PropertyId(i) == "PROP_" \o Pad4(i)

PropertyIds ==
  /\ At("property_ids")
  /\ globals' = [globals EXCEPT !.property_ids = [i \in Rows |-> PropertyId(i)]]
  /\ NoDraw /\ Step

\* dates are day numbers counted from start_date
ListingDates ==
  /\ At("listing_dates")
  /\ \E d \in OneArray(ListingDayValues) :
       /\ \A i \in Rows : d[i] \in 0..(RandintHigh - 1)
       /\ globals' = [globals EXCEPT !.listing_dates = d]
  /\ Draw(GlobalStream, "listing_dates") /\ Step

DaysToSale ==
  /\ At("days_to_sale")
  /\ \E d \in OneArray(DaysToSaleValues) :
       /\ \A i \in Rows : d[i] \in 5..179
       /\ globals' = [globals EXCEPT !.days_to_sale = d]
  /\ Draw(GlobalStream, "days_to_sale") /\ Step

SaleDates ==
  /\ At("sale_dates")
  /\ globals' = [globals EXCEPT !.sale_dates =
                   [i \in Rows |-> globals.listing_dates[i] + globals.days_to_sale[i]]]
  /\ NoDraw /\ Step

City ==
  /\ At("city")
  /\ \E c \in OneArray(cities) : globals' = [globals EXCEPT !.city = c]
  /\ Draw(GlobalStream, "city") /\ Step

LatLon ==
  /\ At("latlon")
  /\ \E ja \in OneArray(JitterValues), jo \in {Cyc(JitterValues, 1)} :
       globals' = [globals EXCEPT
         !.latitudes = [i \in Rows |-> city_coords(globals.city[i])[1] + ja[i]],
         !.longitudes = [i \in Rows |-> city_coords(globals.city[i])[2] + jo[i]]]
  /\ Draw(GlobalStream, "latlon") /\ Step

PropertyType ==
  /\ At("property_type")
  /\ \E t \in ColumnDraws(property_types) :
       globals' = [globals EXCEPT !.property_type = t]
  /\ Draw(GlobalStream, "property_type") /\ Step

Bedrooms ==
  /\ At("bedrooms")
  /\ \E b \in OneArray(BedroomValues) : globals' = [globals EXCEPT !.bedrooms = b]
  /\ Draw(GlobalStream, "bedrooms") /\ Step

Bathrooms ==
  /\ At("bathrooms")
  /\ \E b \in OneArray(BathroomValues) : globals' = [globals EXCEPT !.bathrooms = b]
  /\ Draw(GlobalStream, "bathrooms") /\ Step

Area ==
  /\ At("area")
  /\ \E gm \in OneArray(AreaGammaValues) :
       globals' = [globals EXCEPT !.area =
         [i \in Rows |-> Clip(gm[i] + 500 * SCALE, 500 * SCALE, 5000 * SCALE)]]
  /\ Draw(GlobalStream, "area") /\ Step

\* np.clip(lot_size, 0.05, 3)
LotSizeClip(x) == Clip(x, 5, 3 * SCALE)

LotSize ==
  /\ At("lot_size")
  /\ \E gm \in OneArray(LotGammaValues) :
       globals' = [globals EXCEPT !.lot_size = [i \in Rows |-> LotSizeClip(gm[i])]]
  /\ Draw(GlobalStream, "lot_size") /\ Step

Age ==
  /\ At("age")
  /\ \E gm \in ColumnDraws(AgeGammaValues) :
       globals' = [globals EXCEPT !.age = [i \in Rows |-> Clip(gm[i], 0, 100 * SCALE)]]
  /\ Draw(GlobalStream, "age") /\ Step

(* ------------------------------ 5. price ------------------------------ *)
\* one row of the base_price expression, in hundredths of a dollar
BasePriceRow(i, noise) ==
  IF IsNull(globals.lot_size[i]) THEN NaN
  ELSE 50000 * SCALE
       + globals.area[i] * 150
       + globals.bedrooms[i] * 30000 * SCALE
       + globals.bathrooms[i] * 20000
       + globals.lot_size[i] * 50000
       + (IF globals.property_type[i] = "Single Family" THEN 50000 * SCALE ELSE 0)
       + (IF globals.property_type[i] = "Villa" THEN 100000 * SCALE ELSE 0)
       + noise
       - globals.age[i] * 1000

BasePrice ==
  /\ At("base_price")
  /\ \E noise \in ColumnDraws(NoiseValues) :
       globals' = [globals EXCEPT !.base_price =
                     [i \in Rows |-> BasePriceRow(i, noise[i])]]
  /\ Draw(GlobalStream, "noise") /\ Step

PriceFloorMin(p) == PyMin(p, MinPrice * SCALE)
\* max(p, 100000)
PriceFloor(p) == PyMax(p, MinPrice * SCALE)

Price ==
  /\ At("price")
  /\ globals' = [globals EXCEPT !.price =
       [i \in Rows |->
          PriceFloor(IF IsNull(globals.base_price[i]) THEN NaN
                     ELSE globals.base_price[i]
                          + city_premiums(globals.city[i]) * SCALE)]]
  /\ NoDraw /\ Step

Injective(s) == \A a, b \in DOMAIN s : s[a] = s[b] => a = b

\* np.random.choice(population, size=k, replace=...): the arrays it may return
Choice(population, k, replace) ==
  {s \in [1..k -> population] : replace \/ Injective(s)}

OutlierChoicesReplace == Choice(0..(n_rows - 1), NumOutliers, TRUE)
\* np.random.choice(n_rows, size=15, replace=False)
OutlierChoices == Choice(0..(n_rows - 1), NumOutliers, FALSE)

OutlierIndices ==
  /\ At("outlier_indices")
  /\ \E idx \in OutlierChoices :
       globals' = [globals EXCEPT !.outlier_indices = idx]
  /\ Draw(GlobalStream, "outlier_indices") /\ Step

\* a[idx] = a[idx] * f with 0-based idx: the right side is computed from the
\* old array, and for a repeated index the last assignment stays
ScaleAt(a, idx, f) ==
  [i \in DOMAIN a |->
     LET ks == {k \in DOMAIN idx : idx[k] = i - 1}
     IN IF ks = {} THEN a[i]
        ELSE Mul(a[i], f[CHOOSE k \in ks : \A j \in ks : j <= k])]

OutlierScale ==
  /\ At("outlier_scale")
  /\ \E f \in {CycN(FactorValues, 0, NumOutliers)} :
       /\ \A j \in 1..NumOutliers : f[j] >= 2 * SCALE /\ f[j] <= 5 * SCALE
       /\ globals' = [globals EXCEPT
                        !.price = ScaleAt(globals.price, globals.outlier_indices, f)]
  /\ Draw(GlobalStream, "outlier_factors") /\ Step

(* ------------------------ 6-7. categories, text ----------------------- *)
Condition ==
  /\ At("condition")
  /\ \E c \in OneArray(conditions) : globals' = [globals EXCEPT !.condition = c]
  /\ Draw(GlobalStream, "condition") /\ Step

Parking ==
  /\ At("parking")
  /\ \E c \in OneArray(parkings) : globals' = [globals EXCEPT !.parking = c]
  /\ Draw(GlobalStream, "parking") /\ Step

HasPool ==
  /\ At("has_pool")
  /\ \E c \in OneArray(<<"True", "False">>) : globals' = [globals EXCEPT !.has_pool = c]
  /\ Draw(GlobalStream, "has_pool") /\ Step

HasFireplace ==
  /\ At("has_fireplace")
  /\ \E c \in OneArray(<<"Yes", "No">>) :
       globals' = [globals EXCEPT !.has_fireplace = c]
  /\ Draw(GlobalStream, "has_fireplace") /\ Step

\* str() of a numpy float that is a multiple of 0.5
FloatStr(x) == ToString(x \div SCALE) \o "." \o ToString((x % SCALE) \div 10)

\* description_templates[t - 1].format(...)
Format(t, cond, ptype, bed, bath, c) ==
  CASE t = 1 -> "Beautiful " \o cond \o " " \o ptype \o " with " \o ToString(bed)
                \o " bedrooms in " \o c \o ". Spacious living area."
    [] t = 2 -> "Charming " \o ptype \o " featuring " \o FloatStr(bath)
                \o " bathrooms. Great location in " \o c \o "!"
    [] t = 3 -> "Stunning " \o cond \o " property with modern amenities. "
                \o ToString(bed) \o "BR/" \o FloatStr(bath) \o "BA in prime "
                \o c \o " area."
    [] t = 4 -> "Lovely " \o ptype
                \o " home, well-maintained and move-in ready. Located in " \o c \o "."
    [] t = 5 -> "Spacious " \o ToString(bed) \o " bedroom " \o ptype
                \o ". Perfect for families! " \o c \o " location."

Descriptions ==
  /\ At("descriptions")
  /\ \E t \in OneArray(TemplateValues), u1 \in OneArray(KitchenFlipValues),
        u2 \in OneArray(SchoolFlipValues) :
       globals' = [globals EXCEPT !.descriptions =
         [i \in Rows |->
            LET desc == Format(t[i], Lower(globals.condition[i]),
                               Lower(globals.property_type[i]), globals.bedrooms[i],
                               globals.bathrooms[i], globals.city[i])
                d1 == IF u1[i] > 70 THEN desc \o " Updated kitchen and appliances."
                      ELSE desc
                d2 == IF u2[i] > 80 THEN d1 \o " Close to schools and shopping."
                      ELSE d1
            IN <<d2>>]]
  /\ Draw(GlobalStream, "descriptions") /\ Step

(* -------------------- 8. additional numeric features ------------------ *)
YearBuilt ==
  /\ At("year_built")
  /\ globals' = [globals EXCEPT !.year_built =
                   [i \in Rows |-> CurrentYear - AsInt(globals.age[i])]]
  /\ NoDraw /\ Step

Stories ==
  /\ At("stories")
  /\ \E v \in OneArray(StoryValues) : globals' = [globals EXCEPT !.stories = v]
  /\ Draw(GlobalStream, "stories") /\ Step

GarageSpaces ==
  /\ At("garage_spaces")
  /\ \E v \in OneArray(GarageValues) : globals' = [globals EXCEPT !.garage_spaces = v]
  /\ Draw(GlobalStream, "garage_spaces") /\ Step

IsType(t) == [i \in Rows |-> globals.property_type[i] = t]

HoaFee ==
  /\ At("hoa_fee")
  /\ \E gm \in OneArray(HoaGammaValues) :
       globals' = [globals EXCEPT !.hoa_fee =
         Where(IsType("Condo"), [i \in Rows |-> gm[i] + 200 * SCALE], gm)]
  /\ Draw(GlobalStream, "hoa_fee") /\ Step

Abs(x) == IF x < 0 THEN -x ELSE x

DaysOnMarket ==
  /\ At("days_on_market")
  /\ \E v \in OneArray(DaysOnMarketValues) :
       globals' = [globals EXCEPT !.days_on_market = [i \in Rows |-> Abs(v[i])]]
  /\ Draw(GlobalStream, "days_on_market") /\ Step

Views ==
  /\ At("views")
  /\ \E v \in OneArray(PoissonValues) :
       globals' = [globals EXCEPT !.views = [i \in Rows |-> v[i] + 20]]
  /\ Draw(GlobalStream, "views") /\ Step

SchoolRating ==
  /\ At("school_rating")
  /\ \E v \in OneArray(SchoolRatingValues) :
       globals' = [globals EXCEPT !.school_rating = v]
  /\ Draw(GlobalStream, "school_rating") /\ Step

\* BetaValues are the beta draws already multiplied by 100, in hundredths
WalkScore ==
  /\ At("walk_score")
  /\ \E v \in OneArray(BetaValues) : globals' = [globals EXCEPT !.walk_score = v]
  /\ Draw(GlobalStream, "walk_score") /\ Step

(* ------------------------- 9. missing values -------------------------- *)
LotSizeMaskedType == "Townhouse"
\* the property type whose lot_size is cleared
LotSizeMaskType == "Condo"

LotSizeMask ==
  /\ At("lot_size_mask")
  /\ globals' = [globals EXCEPT !.lot_size =
                   Where(IsType(LotSizeMaskType), NaNs, globals.lot_size)]
  /\ NoDraw /\ Step

HoaFeeMask ==
  /\ At("hoa_fee_mask")
  /\ \E u \in OneArray(HoaUniformValues) :
       LET missing_hoa_mask ==
             [i \in Rows |-> globals.property_type[i] = "Single Family" /\ u[i] > 60]
       IN globals' = [globals EXCEPT !.hoa_fee =
                        Where(missing_hoa_mask, NaNs, globals.hoa_fee)]
  /\ Draw(GlobalStream, "missing_hoa_mask") /\ Step

YearBuiltMask ==
  /\ At("year_built_mask")
  /\ \E u \in ColumnDraws(YearUniformValues) :
       LET year_built_mask == [i \in Rows |-> u[i] > 95]
       IN globals' = [globals EXCEPT !.year_built =
                        Where(year_built_mask, NaNs, globals.year_built)]
  /\ Draw(GlobalStream, "year_built_mask") /\ Step

DescriptionMask ==
  /\ At("description_mask")
  /\ \E u \in OneArray(DescUniformValues) :
       LET description_mask == [i \in Rows |-> u[i] > 97]
       IN globals' = [globals EXCEPT !.descriptions =
            [i \in Rows |-> IF ~description_mask[i] THEN globals.descriptions[i]
                            ELSE NoText]]
  /\ Draw(GlobalStream, "description_mask") /\ Step

WalkScoreMask ==
  /\ At("walk_score_mask")
  /\ \E u \in OneArray(WalkUniformValues) :
       LET walk_score_mask == [i \in Rows |-> u[i] > 90]
       IN globals' = [globals EXCEPT !.walk_score =
                        Where(walk_score_mask, NaNs, globals.walk_score)]
  /\ Draw(GlobalStream, "walk_score_mask") /\ Step

(* --------------------------- 10. DataFrame ---------------------------- *)
\* row i of pd.DataFrame({...}), columns in the order of the dict
DataFrameRow(i) ==
  [ property_id |-> globals.property_ids[i],
    listing_date |-> globals.listing_dates[i],
    sale_date |-> globals.sale_dates[i],
    city |-> globals.city[i],
    latitude |-> globals.latitudes[i],
    longitude |-> globals.longitudes[i],
    property_type |-> globals.property_type[i],
    bedrooms |-> globals.bedrooms[i],
    bathrooms |-> globals.bathrooms[i],
    area |-> Round(globals.area[i], 0),
    lot_size |-> globals.lot_size[i],
    year_built |-> globals.year_built[i],
    age |-> Round(globals.age[i], 0),
    condition |-> globals.condition[i],
    price |-> Round(globals.price[i], 0),
    parking |-> globals.parking[i],
    has_pool |-> globals.has_pool[i],
    has_fireplace |-> globals.has_fireplace[i],
    stories |-> globals.stories[i],
    garage_spaces |-> globals.garage_spaces[i],
    hoa_fee |-> Round(globals.hoa_fee[i], 2),
    days_on_market |-> Round(globals.days_on_market[i], 0),
    views |-> globals.views[i],
    school_rating |-> globals.school_rating[i],
    walk_score |-> Round(globals.walk_score[i], 1),
    description |-> globals.descriptions[i] ]

\* RangeIndex(n): the labels 0..n-1
RangeIndex(n) == [k \in 1..n |-> k - 1]

DataFrame ==
  /\ At("df")
  /\ globals' = [globals EXCEPT !.df =
                   [index |-> RangeIndex(n_rows), rows |-> [i \in Rows |-> DataFrameRow(i)]]]
  /\ NoDraw /\ Step

(* ----------------------- duplicates and shuffle ----------------------- *)
DuplicateChoicesReplace(index) == Choice(SeqRange(index), NumDuplicates, TRUE)
\* np.random.choice(df.index, size=6, replace=False)
DuplicateChoices(index) == Choice(SeqRange(index), NumDuplicates, FALSE)

DuplicateIndices ==
  /\ At("duplicate_indices")
  /\ \E idx \in DuplicateChoices(globals.df.index) :
       globals' = [globals EXCEPT !.duplicate_indices = idx]
  /\ Draw(GlobalStream, "duplicate_indices") /\ Step

\* positional lookup one place off
LocShifted(df, label) == df.rows[((label + 1) % Len(df.rows)) + 1]
\* df.loc[label]: the row carrying that index label
Loc(df, label) == df.rows[CHOOSE k \in DOMAIN df.index : df.index[k] = label]

LocCopyRenumbered(df, labels) ==
  [k \in DOMAIN labels |->
     [Loc(df, labels[k]) EXCEPT !.property_id = PropertyId(Len(df.rows) + k)]]
\* df.loc[labels].copy()
LocCopy(df, labels) == [k \in DOMAIN labels |-> Loc(df, labels[k])]

Concat ==
  /\ At("concat")
  /\ LET df_duplicates == LocCopy(globals.df, globals.duplicate_indices)
         rows == globals.df.rows \o df_duplicates
     IN globals' = [globals EXCEPT
                      !.df = [index |-> RangeIndex(Len(rows)), rows |-> rows]]
  /\ NoDraw /\ Step

Rot(m, k) == [i \in 1..m |-> ((i - 1 + k) % m) + 1]
Rev(m) == [i \in 1..m |-> m + 1 - i]
\* the row orders df.sample(frac=1) may return for m rows: positions of the
\* sampled rows in the original frame
SamplePermutations(m) == {Rot(m, 1), Rot(m, 2), Rev(m)}

SampleStreamShared == GlobalStream
\* random_state=42: df.sample builds its own RandomState(42)
SampleStream == "RandomState(42)"

\* reset_index(drop=True)
ResetIndex(index) == RangeIndex(Len(index))

\* df.sample(frac=1, random_state=42).reset_index(drop=True); `sampled` keeps
\* the index of the intermediate frame that sample() returned
Shuffle ==
  /\ At("shuffle")
  /\ \E p \in SamplePermutations(Len(globals.df.rows)) :
       LET sampled == [k \in DOMAIN p |-> globals.df.index[p[k]]]
       IN globals' = [globals EXCEPT
            !.sampled = sampled,
            !.df = [index |-> ResetIndex(sampled),
                    rows |-> [k \in DOMAIN p |-> globals.df.rows[p[k]]]]]
  /\ Draw(SampleStream, "sample") /\ Step

Next ==
  \/ PropertyIds \/ ListingDates \/ DaysToSale \/ SaleDates \/ City \/ LatLon
  \/ PropertyType \/ Bedrooms \/ Bathrooms \/ Area \/ LotSize \/ Age
  \/ BasePrice \/ Price \/ OutlierIndices \/ OutlierScale
  \/ Condition \/ Parking \/ HasPool \/ HasFireplace \/ Descriptions
  \/ YearBuilt \/ Stories \/ GarageSpaces \/ HoaFee \/ DaysOnMarket \/ Views
  \/ SchoolRating \/ WalkScore
  \/ LotSizeMask \/ HoaFeeMask \/ YearBuiltMask \/ DescriptionMask \/ WalkScoreMask
  \/ DataFrame \/ DuplicateIndices \/ Concat \/ Shuffle

Spec == Init /\ [][Next]_vars

(* ============================== claims ================================ *)
FinalRows == globals.df.rows
FinalLen == n_rows + NumDuplicates

\* the generated row a table row was built from
SourceIndex(r) == CHOOSE i \in Rows : globals.property_ids[i] = r.property_id

\* the row that carried index label `label` in the concatenated frame
ConcatRow(label) ==
  IF Done
  THEN globals.df.rows[CHOOSE k \in DOMAIN globals.sampled : globals.sampled[k] = label]
  ELSE Loc(globals.df, label)

\* C1: once the duplicates are appended, and still after the shuffle and the
\* index renumbering, the table has n_rows + NumDuplicates rows and each
\* appended row equals its source row in every column.
C1_DuplicatesVerbatim ==
  Past("concat") =>
    /\ Len(FinalRows) = FinalLen
    /\ Len(globals.df.index) = FinalLen
    /\ \A k \in 1..NumDuplicates :
         ConcatRow(n_rows + k - 1) = ConcatRow(globals.duplicate_indices[k])

\* a finished run in which an appended row carries missing markers and the
\* shuffle has moved it
C1_Witness ==
  /\ Done
  /\ \E k \in 1..NumDuplicates :
       /\ IsNull(ConcatRow(n_rows + k - 1).lot_size)
       /\ ConcatRow(n_rows + k - 1).description = NoText
       /\ globals.sampled[n_rows + k] # n_rows + k - 1

\* C2 (as claimed): at the duplicate draw every array of NumDuplicates labels,
\* repeated labels included, is a possible outcome.
C2_WithReplacement ==
  At("duplicate_indices") =>
    \A d \in Choice(SeqRange(globals.df.index), NumDuplicates, TRUE) :
      ENABLED (DuplicateIndices /\ globals'.duplicate_indices = d)

\* C2 (amended): the duplicate source labels are labels of the table and are
\* pairwise distinct, so no row is appended more than once.
C2_WithoutReplacement ==
  Past("duplicate_indices") =>
    /\ Len(globals.duplicate_indices) = NumDuplicates
    /\ \A k \in 1..NumDuplicates : globals.duplicate_indices[k] \in 0..(n_rows - 1)
    /\ Injective(globals.duplicate_indices)
    /\ Past("concat") =>
         \A a, b \in 1..NumDuplicates :
           ConcatRow(n_rows + a - 1).property_id = ConcatRow(n_rows + b - 1).property_id
             => a = b

C2_Witness ==
  /\ Past("concat")
  /\ Len(FinalRows) = FinalLen
  /\ Cardinality(SeqRange(globals.duplicate_indices)) = NumDuplicates

BaseSites == {"listing_dates", "days_to_sale", "city", "latlon", "property_type",
              "bedrooms", "bathrooms", "area", "lot_size", "age"}
CategorySites == {"condition", "parking", "has_pool", "has_fireplace"}
AdditionalSites == {"stories", "garage_spaces", "hoa_fee", "days_on_market",
                    "views", "school_rating", "walk_score"}
OutlierSites == {"outlier_indices", "outlier_factors"}
MaskSites == {"missing_hoa_mask", "year_built_mask", "description_mask",
              "walk_score_mask"}

\* the stage order the claim gives: generators, noise, description, outliers,
\* masks, duplicates, shuffle
ClaimedStage(site) ==
  CASE site \in BaseSites \cup CategorySites \cup AdditionalSites -> 1
    [] site = "noise" -> 2
    [] site = "descriptions" -> 3
    [] site \in OutlierSites -> 4
    [] site \in MaskSites -> 5
    [] site = "duplicate_indices" -> 6
    [] site = "sample" -> 7

\* the stage order of the script
ScriptStage(site) ==
  CASE site \in BaseSites -> 1
    [] site = "noise" -> 2
    [] site \in OutlierSites -> 3
    [] site \in CategorySites -> 4
    [] site = "descriptions" -> 5
    [] site \in AdditionalSites -> 6
    [] site \in MaskSites -> 7
    [] site = "duplicate_indices" -> 8
    [] site = "sample" -> 9

AllSites == BaseSites \cup CategorySites \cup AdditionalSites \cup OutlierSites
            \cup MaskSites \cup {"noise", "descriptions", "duplicate_indices", "sample"}

\* C3 (as claimed): no draw of a later claimed stage precedes a draw of an
\* earlier claimed stage.
C3_ClaimedOrder ==
  \A a, b \in DOMAIN draws :
    a < b => ClaimedStage(draws[a][2]) <= ClaimedStage(draws[b][2])

\* C3 (amended): the draws happen in the order base generators, price noise,
\* outlier indices and factors, condition/parking/pool/fireplace, description
\* choices and flips, stories..walk_score, mask draws, duplicate indices, all
\* on the shared stream, and last the shuffle on its own generator (the stage
\* never decreases from one draw to the next); a finished run has made every
\* one of these draws exactly once.
C3_ScriptOrder ==
  /\ \A a \in 1..(Len(draws) - 1) :
       ScriptStage(draws[a][2]) <= ScriptStage(draws[a + 1][2])
  /\ \A a \in DOMAIN draws :
       draws[a][1] = (IF draws[a][2] = "sample" THEN "RandomState(42)" ELSE "np.random")
  /\ Done => /\ {draws[a][2] : a \in DOMAIN draws} = AllSites
             /\ Len(draws) = Cardinality(AllSites)

C3_Witness ==
  /\ Done
  /\ \E a, b \in DOMAIN draws :
       a < b /\ draws[a][2] = "outlier_factors" /\ draws[b][2] = "condition"
  /\ \E a, b \in DOMAIN draws :
       a < b /\ draws[a][2] = "has_fireplace" /\ draws[b][2] = "descriptions"

\* C4 (as claimed): the shuffle is the last draw on the shared stream, and the
\* final index is 0..n_rows+NumDuplicates-1.
C4_ShuffleOnSharedStream ==
  Done =>
    /\ draws[Len(draws)] = <<GlobalStream, "sample">>
    /\ globals.df.index = RangeIndex(FinalLen)

\* C4 (amended): the shuffle draws from a generator of its own, seeded 42, and
\* is the only draw that does; the last draw on the shared stream is the
\* duplicate index choice; the final index is 0..n_rows+NumDuplicates-1.
C4_ShuffleOnOwnStream ==
  Done =>
    /\ draws[Len(draws)] = <<"RandomState(42)", "sample">>
    /\ \A a \in 1..(Len(draws) - 1) : draws[a][1] = GlobalStream
    /\ draws[Len(draws) - 1] = <<GlobalStream, "duplicate_indices">>
    /\ globals.df.index = RangeIndex(FinalLen)
    /\ SeqRange(globals.sampled) = 0..(FinalLen - 1)

C4_Witness ==
  /\ Done
  /\ globals.sampled # RangeIndex(FinalLen)
  /\ globals.df.index = RangeIndex(FinalLen)

\* C5 (as claimed): a present year_built is 2024 minus the rounded age, the
\* value of the row's age column.
C5_YearFromRoundedAge ==
  Past("df") =>
    \A k \in DOMAIN FinalRows :
      LET r == FinalRows[k]
      IN ~IsNull(r.year_built) =>
           /\ r.age = RoundHalfEven(globals.age[SourceIndex(r)], SCALE)
           /\ r.year_built = CurrentYear - r.age \div SCALE

\* C5 (amended): a present year_built is 2024 minus the integer part of the
\* clipped age (the age truncated, not rounded), so it is the age column's
\* year or one year later.
C5_YearFromTruncatedAge ==
  Past("df") =>
    \A k \in DOMAIN FinalRows :
      LET r == FinalRows[k]
          a == globals.age[SourceIndex(r)]
          y == CurrentYear - r.year_built
      IN ~IsNull(r.year_built) =>
           /\ a >= 0 /\ a <= 100 * SCALE
           /\ y * SCALE <= a /\ a < (y + 1) * SCALE
           /\ r.age = RoundHalfEven(a, SCALE)
           /\ r.year_built \in {CurrentYear - r.age \div SCALE,
                                CurrentYear - r.age \div SCALE + 1}

\* a row whose year_built and age column disagree, and one clipped at 100
C5_Witness ==
  /\ Done
  /\ \E k \in DOMAIN FinalRows :
       /\ ~IsNull(FinalRows[k].year_built)
       /\ FinalRows[k].year_built = CurrentYear - FinalRows[k].age \div SCALE + 1
  /\ \E k \in DOMAIN FinalRows :
       /\ ~IsNull(FinalRows[k].year_built)
       /\ FinalRows[k].age = 100 * SCALE

\* C6: in the table lot_size is missing exactly for the Condo rows, and a
\* present lot_size lies in [0.05, 3].
C6_LotSizeMissingIffCondo ==
  Past("df") =>
    \A k \in DOMAIN FinalRows :
      LET r == FinalRows[k]
      IN /\ IsNull(r.lot_size) <=> r.property_type = "Condo"
         /\ ~IsNull(r.lot_size) => (r.lot_size >= 5 /\ r.lot_size <= 3 * SCALE)

C6_Witness ==
  /\ Done
  /\ \E k \in DOMAIN FinalRows :
       FinalRows[k].property_type = "Condo" /\ IsNull(FinalRows[k].lot_size)
  /\ \E k \in DOMAIN FinalRows :
       FinalRows[k].property_type = "Single Family" /\ FinalRows[k].lot_size = 5
  /\ \E k \in DOMAIN FinalRows :
       FinalRows[k].property_type = "Townhouse" /\ FinalRows[k].lot_size = 3 * SCALE

\* C7: every price, from the floor on and in every table row, is present and
\* at least 100000.
C7_PriceAtLeastFloor ==
  /\ Past("price") =>
       \A i \in Rows : ~IsNull(globals.price[i]) /\ globals.price[i] >= MinPrice * SCALE
  /\ Past("df") =>
       \A k \in DOMAIN FinalRows :
         ~IsNull(FinalRows[k].price) /\ FinalRows[k].price >= MinPrice * SCALE

\* a finished run with a floored row, a boosted outlier row and a Condo row
\* that was duplicated
C7_Witness ==
  /\ Done
  /\ \E k \in DOMAIN FinalRows : FinalRows[k].price = MinPrice * SCALE
  /\ \E j \in 1..NumOutliers :
       globals.base_price[globals.outlier_indices[j] + 1] < 0
  /\ \E j \in 1..NumDuplicates :
       ConcatRow(n_rows + j - 1).property_type = "Condo"

\* C8: the outlier step changes the price of exactly the NumOutliers pairwise
\* distinct chosen rows, each to between 2 and 5 times its old value, leaves
\* the other prices alone, and runs before any duplicate is chosen.
C8_OutlierFrame ==
  [][OutlierScale =>
       LET changed == {i \in Rows : globals'.price[i] # globals.price[i]}
       IN /\ Cardinality(changed) = NumOutliers
          /\ changed = {globals.outlier_indices[j] + 1 : j \in 1..NumOutliers}
          /\ \A i \in changed :
               /\ globals'.price[i] >= 2 * globals.price[i]
               /\ globals'.price[i] <= 5 * globals.price[i]
          /\ \A i \in Rows \ changed : globals'.price[i] = globals.price[i]
          /\ globals.duplicate_indices = Undefined
          /\ globals.df.rows = <<>>]_vars

C8_Witness ==
  /\ Past("outlier_scale")
  /\ ~Past("duplicate_indices")
  /\ Cardinality({i \in Rows : globals.price[i] >= 2 * MinPrice * SCALE}) >= NumOutliers
  /\ \E i \in Rows : globals.price[i] = MinPrice * SCALE

NumericColumnsPresent(r) ==
  /\ ~IsNull(r.listing_date) /\ ~IsNull(r.sale_date)
  /\ ~IsNull(r.latitude) /\ ~IsNull(r.longitude)
  /\ ~IsNull(r.bedrooms) /\ ~IsNull(r.bathrooms)
  /\ ~IsNull(r.area) /\ ~IsNull(r.age) /\ ~IsNull(r.price)
  /\ ~IsNull(r.stories) /\ ~IsNull(r.garage_spaces)
  /\ ~IsNull(r.days_on_market) /\ ~IsNull(r.views) /\ ~IsNull(r.school_rating)

TextColumnsPresent(r) ==
  /\ r.property_id \in {PropertyId(i) : i \in Rows}
  /\ r.city \in SeqRange(cities)
  /\ r.property_type \in SeqRange(property_types)
  /\ r.condition \in SeqRange(conditions)
  /\ r.parking \in SeqRange(parkings)
  /\ r.has_pool \in {"True", "False"}
  /\ r.has_fireplace \in {"Yes", "No"}

\* C9: in the table only lot_size, hoa_fee, year_built, description and
\* walk_score can hold a missing marker; every other column holds a value.
C9_MissingOnlyInMaskedColumns ==
  Past("df") =>
    \A k \in DOMAIN FinalRows :
      NumericColumnsPresent(FinalRows[k]) /\ TextColumnsPresent(FinalRows[k])

\* a finished run in which each of the five maskable columns is missing somewhere
C9_Witness ==
  /\ Done
  /\ \E k \in DOMAIN FinalRows : IsNull(FinalRows[k].lot_size)
  /\ \E k \in DOMAIN FinalRows : IsNull(FinalRows[k].hoa_fee)
  /\ \E k \in DOMAIN FinalRows : IsNull(FinalRows[k].year_built)
  /\ \E k \in DOMAIN FinalRows : IsNull(FinalRows[k].walk_score)
  /\ \E k \in DOMAIN FinalRows : FinalRows[k].description = NoText

Occurrences(id) == Cardinality({k \in DOMAIN FinalRows : FinalRows[k].property_id = id})

\* C10: in the final table every generated property_id occurs once or twice,
\* and exactly NumDuplicates of them occur twice.
C10_PropertyIdCounts ==
  Done =>
    /\ \A i \in Rows : Occurrences(PropertyId(i)) \in {1, 2}
    /\ Cardinality({i \in Rows : Occurrences(PropertyId(i)) = 2}) = NumDuplicates
    /\ \A k \in DOMAIN FinalRows : FinalRows[k].property_id \in {PropertyId(i) : i \in Rows}

C10_Witness ==
  /\ Done
  /\ \E a, b \in DOMAIN FinalRows :
       a # b /\ FinalRows[a].property_id = FinalRows[b].property_id
  /\ \E i \in Rows : Occurrences(PropertyId(i)) = 1

====
